---- MODULE Spec2Model ----
(***************************************************************************)
(* A model of clang-cxx-layout/CxxLayout.cpp: the process-wide             *)
(* LayoutContext, the record analyzer (analyzeRecord), the declaration     *)
(* visitor and the five exported operations (setArgs, analyzeSource,       *)
(* cleanup, getRecordList, getLayoutForRecord).                            *)
(*                                                                         *)
(* Strings held by the program (std::string name/type) are sequences of    *)
(* byte values; text written to an output stream is a sequence of          *)
(* one-character strings, so that writeEscaped is a real conversion from   *)
(* the former to the latter.                                               *)
(***************************************************************************)
EXTENDS Integers, Sequences, FiniteSets, TLC

(***************************************************************************)
(* Bounds of the model.                                                    *)
(***************************************************************************)
\* direct bases in the inheritance list of the varied record D
MaxBases == 2
\* declared fields of the varied record D
MaxFields == 2
\* declared fields of the record C of the bit-field programs
MaxBitFields == 2
\* largest bit offset of a field of C
MaxBit == 8

\* pointer width in bits of the default target (x86_64-pc-linux-gnu)
PointerWidth == 64

(***************************************************************************)
(* Characters and text.                                                    *)
(***************************************************************************)
\* the printable ASCII characters, bytes 32 .. 126, in byte order (byte 96,
\* the grave accent, cannot be written in a string here and has a stand-in)
Printable ==
  <<" ", "!", "\"", "#", "$", "%", "&", "'", "(", ")", "*", "+", ",", "-", ".", "/",
    "0", "1", "2", "3", "4", "5", "6", "7", "8", "9", ":", ";", "<", "=", ">", "?",
    "@", "A", "B", "C", "D", "E", "F", "G", "H", "I", "J", "K", "L", "M", "N", "O",
    "P", "Q", "R", "S", "T", "U", "V", "W", "X", "Y", "Z", "[", "\\", "]", "^", "_",
    "<grave>", "a", "b", "c", "d", "e", "f", "g", "h", "i", "j", "k", "l", "m", "n", "o",
    "p", "q", "r", "s", "t", "u", "v", "w", "x", "y", "z", "{", "|", "}", "~">>

\* the character a printable byte is written as
Chr(C) == Printable[C - 31]

\* the byte of a printable character
Ord(c) == 31 + (CHOOSE i \in 1..Len(Printable) : Printable[i] = c)

\* a std::string (bytes) from its characters
Str(s) == [i \in 1..Len(s) |-> Ord(s[i])]

\* concatenation of a sequence of texts
RECURSIVE Concat(_)
Concat(ss) == IF ss = <<>> THEN <<>> ELSE Head(ss) \o Concat(Tail(ss))

Digits == <<"0", "1", "2", "3", "4", "5", "6", "7", "8", "9">>

\* what raw_ostream << (an unsigned or non-negative integer) and llvm::utostr
\* write: the decimal digits, most significant first
RECURSIVE utostr(_)
utostr(n) ==
  IF n < 10 THEN <<Digits[n + 1]>>
  ELSE utostr(n \div 10) \o <<Digits[(n % 10) + 1]>>

Hex == <<"0", "1", "2", "3", "4", "5", "6", "7", "8", "9", "A", "B", "C", "D", "E", "F">>

\* the text writeEscaped writes for one byte C
EscapeChar(C) ==
  CASE C = 34 -> <<"\\", "\"">>
    [] C = 92 -> <<"\\", "\\">>
    [] C = 8  -> <<"\\", "b">>
    [] C = 12 -> <<"\\", "f">>
    [] C = 10 -> <<"\\", "n">>
    [] C = 13 -> <<"\\", "r">>
    [] C = 9  -> <<"\\", "t">>
    [] OTHER  ->
         IF C < 32
           THEN <<"\\", "u", "0", "0">>
                  \o <<Hex[((C \div 16) % 16) + 1], Hex[(C % 16) + 1]>>
           ELSE <<Chr(C)>>

\* writeEscaped(OS, S): the text appended to OS
writeEscaped(S) == Concat([i \in 1..Len(S) |-> EscapeChar(S[i])])

(***************************************************************************)
(* FieldType and FieldInfo (CxxLayout.h).                                  *)
(***************************************************************************)
FieldType == {"Simple", "Record", "BitField", "NVBase", "VBase", "VPtr"}

fieldTypeToString(ft) ==
  CASE ft = "Record"   -> <<"R", "e", "c", "o", "r", "d">>
    [] ft = "VPtr"     -> <<"V", "P", "t", "r">>
    [] ft = "NVBase"   -> <<"N", "V", "B", "a", "s", "e">>
    [] ft = "BitField" -> <<"B", "i", "t", "F", "i", "e", "l", "d">>
    [] ft = "Simple"   -> <<"S", "i", "m", "p", "l", "e">>
    [] OTHER           -> <<"U", "n", "k", "n", "o", "w", "n">>

\* std::make_unique<FieldInfo>(): a value-initialised FieldInfo
NewFieldInfo ==
  [isValid |-> FALSE, fieldType |-> "Simple", name |-> <<>>, type |-> <<>>,
   offset |-> 0, size |-> 0, align |-> 0, bitWidth |-> 0, subFields |-> <<>>]

(***************************************************************************)
(* The declaration tree and the numbers the front end supplies (clang's    *)
(* CXXRecordDecl, FieldDecl, CXXBaseSpecifier and ASTRecordLayout).        *)
(*                                                                         *)
(* A record declaration is                                                 *)
(*   [id, name, complete, invalid, ownVFPtr, size, align, bases, fields]   *)
(* a base specifier  [decl, virtual, offset]   (offset in chars)           *)
(* a field           [name, type, rec, invalid, bitfield, width, offset,   *)
(*                    size, align]             (offset in bits)            *)
(* where rec is <<>> when the field's type is no record and <<decl>> when   *)
(* Field->getType()->getAsCXXRecordDecl() is decl.  A forward declaration  *)
(* has complete = FALSE and neither bases nor fields.                      *)
(*                                                                         *)
(* An oracle o = [crash, gsize, gvptr, tie] fixes what the code leaves     *)
(* open in one pass: whether reading the layout of a record without a      *)
(* definition ends the process (crash) or yields arbitrary numbers (gsize, *)
(* gvptr), and how llvm::sort, which is not stable, orders bases of equal  *)
(* offset (tie).                                                           *)
(***************************************************************************)

\* Ctx.getASTRecordLayout(RD): size, alignment and vptr ownership; undefined
\* for a record without a definition, where the oracle supplies the outcome
getASTRecordLayout(RD, o) ==
  IF RD.complete
    THEN [size |-> RD.size, align |-> RD.align, hasOwnVFPtr |-> RD.ownVFPtr]
    ELSE [size |-> o.gsize, align |-> o.gsize, hasOwnVFPtr |-> o.gvptr]

\* the FieldInfo of a vptr: at offset 0, of the size and alignment of a
\* pointer (Ctx.toCharUnitsFromBits of the pointer width)
VPtrInfo ==
  [NewFieldInfo EXCEPT !.isValid = TRUE, !.fieldType = "VPtr",
     !.type = Str(<<"v", "p", "t", "r">>), !.offset = 0,
     !.size = PointerWidth \div 8, !.align = PointerWidth \div 8]

\* "First the vptr if any"
VPtrFields(Layout) == IF Layout.hasOwnVFPtr THEN <<VPtrInfo>> ELSE <<>>

\* a faulty variant: the comparison is the wrong way round
OffsetGreater(A, B) == A.offset > B.offset

\* the comparator handed to llvm::sort
OffsetLess(A, B) == A.offset < B.offset

RECURSIVE Insert(_, _)
Insert(x, S) ==
  IF S = <<>> THEN <<x>>
  ELSE IF OffsetLess(x, Head(S)) THEN <<x>> \o S
  ELSE <<Head(S)>> \o Insert(x, Tail(S))

RECURSIVE StableSort(_)
StableSort(S) ==
  IF S = <<>> THEN <<>>
  ELSE Insert(S[Len(S)], StableSort(SubSeq(S, 1, Len(S) - 1)))

Reverse(S) == [i \in 1..Len(S) |-> S[Len(S) + 1 - i]]

\* llvm::sort(Bases, comparator): sorted by the comparator; elements that
\* compare equal come out in the order the oracle fixes
llvm_sort(S, o) == StableSort(IF o.tie THEN Reverse(S) ELSE S)

NonVirtual(b) == ~b.virtual

AllValid(S) == \A i \in 1..Len(S) : S[i].isValid

\* a faulty variant: the vptr is appended after the bases and the fields
SubFieldsVPtrLast(VPtr, Bases, Fields) == Bases \o Fields \o VPtr

\* the order in which analyzeRecord appends to Info->subFields
SubFields(VPtr, Bases, Fields) == VPtr \o Bases \o Fields

\* the leaf FieldInfo of a field whose type is no record
LeafFieldInfo(F) ==
  [NewFieldInfo EXCEPT
     !.isValid = ~F.invalid, !.name = F.name, !.type = F.type,
     !.offset = F.offset, !.size = F.size, !.align = F.align,
     !.fieldType = IF F.bitfield THEN "BitField" ELSE "Simple",
     !.bitWidth = IF F.bitfield THEN F.width ELSE 0]

RECURSIVE analyzeRecord(_, _)
analyzeRecord(RD, o) ==
  LET Layout == getASTRecordLayout(RD, o)
      VPtr == VPtrFields(Layout)
      NV == SelectSeq(RD.bases, NonVirtual)
      BaseInfo(b) ==
        [analyzeRecord(b.decl, o) EXCEPT
           !.fieldType = "NVBase", !.offset = b.offset * 8]
      Bases == llvm_sort([i \in 1..Len(NV) |-> BaseInfo(NV[i])], o)
      SubFieldInfo(F) ==
        IF F.rec # <<>>
          THEN [analyzeRecord(F.rec[1], o) EXCEPT
                  !.name = F.name, !.offset = F.offset]
          ELSE LeafFieldInfo(F)
      Fields == [i \in 1..Len(RD.fields) |-> SubFieldInfo(RD.fields[i])]
  IN  [NewFieldInfo EXCEPT
         !.isValid = ~RD.invalid /\ AllValid(Bases) /\ AllValid(Fields),
         !.fieldType = "Record",
         !.type = RD.name,
         !.size = Layout.size,
         !.align = Layout.align,
         !.subFields = SubFields(VPtr, Bases, Fields)]

\* the declarations analyzeRecord(RD) is invoked on, in call order: RD, its
\* non-virtual bases in inheritance-list order, its record-typed fields
RECURSIVE Invocations(_)
Invocations(RD) ==
  LET NV == SelectSeq(RD.bases, NonVirtual)
      OfField(F) == IF F.rec # <<>> THEN Invocations(F.rec[1]) ELSE <<>>
  IN  <<[id |-> RD.id, complete |-> RD.complete]>>
        \o Concat([i \in 1..Len(NV) |-> Invocations(NV[i].decl)])
        \o Concat([i \in 1..Len(RD.fields) |-> OfField(RD.fields[i])])

\* whether some invocation is on a record without a definition
Faults(RD) ==
  LET cs == Invocations(RD) IN \E i \in 1..Len(cs) : ~cs[i].complete

\* the invocations up to and including the first one on a record without a
\* definition
RECURSIVE UpToFault(_)
UpToFault(cs) ==
  IF cs = <<>> THEN <<>>
  ELSE IF ~Head(cs).complete THEN <<Head(cs)>>
  ELSE <<Head(cs)>> \o UpToFault(Tail(cs))

(***************************************************************************)
(* LayoutContext: the state of the process.                                *)
(***************************************************************************)
VARIABLES
  args,        \* LayoutContext::args
  recordList,  \* LayoutContext::recordList, the text of the last listing
  records,     \* LayoutContext::records, a map from declaration id to tree
  tu,          \* the declaration tree of the source last given to analyzeSource
  calls,       \* the invocations of analyzeRecord made by the last pass
  crashed,     \* the process ended inside a pass
  last,        \* the exported operation called last
  qid,         \* the argument of the last getLayoutForRecord
  ret,         \* the text returned by the last getRecordList / getLayoutForRecord
  cleared      \* cleanup was called and analyzeSource has not been since

vars == <<args, recordList, records, tu, calls, crashed, last, qid, ret, cleared>>

DEFAULT_ARGS == "--target=x86_64-pc-linux-gnu"

\* std::map<int64_t, FieldInfoPtr>: the empty map
EmptyMap == <<>>

\* the keys of a std::map in iteration order: ascending
RECURSIVE MapKeys(_)
MapKeys(m) ==
  IF DOMAIN m = {} THEN <<>>
  ELSE LET k == CHOOSE x \in DOMAIN m : \A y \in DOMAIN m : x <= y
       IN  <<k>> \o MapKeys([j \in DOMAIN m \ {k} |-> m[j]])

(***************************************************************************)
(* The declaration visitor.                                                *)
(***************************************************************************)
\* RecursiveDeclVisitor::VisitCXXRecordDecl on the pass state
\* st = [records, calls, crashed]
VisitCXXRecordDecl(st, RD, o) ==
  IF ~RD.complete THEN st
  ELSE IF RD.id \in DOMAIN st.records THEN st
  ELSE IF o.crash /\ Faults(RD)
    THEN [st EXCEPT !.calls = @ \o UpToFault(Invocations(RD)),
                    !.crashed = TRUE]
  ELSE [st EXCEPT !.records = (RD.id :> analyzeRecord(RD, o)) @@ @,
                  !.calls = @ \o Invocations(RD)]

\* V.TraverseDecl(Ctx.getTranslationUnitDecl()): every record declaration
\* of the translation unit, in declaration order
RECURSIVE TraverseDecl(_, _, _)
TraverseDecl(decls, st, o) ==
  IF decls = <<>> \/ st.crashed THEN st
  ELSE TraverseDecl(Tail(decls), VisitCXXRecordDecl(st, Head(decls), o), o)

(***************************************************************************)
(* The serializer.                                                         *)
(***************************************************************************)
\* a faulty variant: the byte offset is rounded up
ByteOffsetRoundedUp(F) == (F.offset + 7) \div 8

\* F.offset >> 3
ByteOffset(F) == F.offset \div 8

RECURSIVE writeField(_)
writeField(F) ==
  LET Sub(i) == (IF i = 1 THEN <<>> ELSE <<",">>) \o writeField(F.subFields[i])
  IN
  <<"{">>
  \o <<"\"", "f", "i", "e", "l", "d", "T", "y", "p", "e", "\"", ":", "\"">>
  \o fieldTypeToString(F.fieldType) \o <<"\"">>
  \o (IF F.name # <<>>
        THEN <<",">> \o <<"\"", "n", "a", "m", "e", "\"", ":", "\"">>
               \o writeEscaped(F.name) \o <<"\"">>
        ELSE <<>>)
  \o <<",">> \o <<"\"", "t", "y", "p", "e", "\"", ":", "\"">>
  \o writeEscaped(F.type) \o <<"\"">>
  \o <<",">> \o <<"\"", "s", "i", "z", "e", "\"", ":">> \o utostr(F.size)
  \o <<",">> \o <<"\"", "a", "l", "i", "g", "n", "\"", ":">> \o utostr(F.align)
  \o <<",">> \o <<"\"", "o", "f", "f", "s", "e", "t", "\"", ":">>
  \o utostr(ByteOffset(F))
  \o (IF F.fieldType = "BitField"
        THEN <<",">>
               \o <<"\"", "b", "i", "t", "W", "i", "d", "t", "h", "\"", ":">>
               \o utostr(F.bitWidth)
        ELSE <<>>)
  \o (IF F.fieldType = "Record" \/ F.fieldType = "NVBase"
        THEN <<",">>
               \o <<"\"", "s", "u", "b", "F", "i", "e", "l", "d", "s", "\"", ":", " ", "[">>
               \o Concat([i \in 1..Len(F.subFields) |-> Sub(i)])
               \o <<"]">>
        ELSE <<>>)
  \o <<"}">>

\* a faulty variant: the cached listing is not cleared first
ListHeadKeepsCache(cache) == cache \o <<"[">>

\* RecordList.clear(); RecordList.append("[")
ListHead(cache) == <<"[">>

\* the loop of getRecordList over the map
RECURSIVE ListEntries(_, _, _)
ListEntries(keys, m, first) ==
  IF keys = <<>> THEN <<>>
  ELSE (IF first THEN <<>> ELSE <<",">>)
       \o <<"{", "\"", "i", "d", "\"", ":", "\"">>
       \o utostr(Head(keys))
       \o <<"\"", ",", "\"", "n", "a", "m", "e", "\"", ":", "\"">>
       \o writeEscaped(m[Head(keys)].type)
       \o <<"\"", "}">>
       \o ListEntries(Tail(keys), m, FALSE)

\* a faulty variant: a miss is answered with null
MissTextNull == <<"n", "u", "l", "l">>

\* dupJson("{}")
MissText == <<"{", "}">>

(***************************************************************************)
(* Sources.  The front end is not part of the program: a source is         *)
(* modelled by the declaration tree it is parsed to, the sequence of the   *)
(* record declarations of the translation unit in declaration order.       *)
(* Declaration ids (Decl::getID) are unique and unrelated to that order.   *)
(***************************************************************************)
\* the names of the types int and unsigned int
TypeInt == Str(<<"i", "n", "t">>)
TypeUnsigned == Str(<<"u", "n", "s", "i", "g", "n", "e", "d", " ", "i", "n", "t">>)

IntField(n, bits, bad) ==
  [name |-> Str(<<n>>), type |-> TypeInt, rec |-> <<>>,
   invalid |-> bad, bitfield |-> FALSE, width |-> 0, offset |-> bits,
   size |-> 4, align |-> 4]

BitFieldOf(n, bits, w) ==
  [name |-> Str(<<n>>),
   type |-> TypeUnsigned, rec |-> <<>>, invalid |-> FALSE,
   bitfield |-> TRUE, width |-> w, offset |-> bits, size |-> 4, align |-> 4]

RecordField(n, bits, RD, bad) ==
  [name |-> Str(<<n>>), type |-> RD.name, rec |-> <<RD>>, invalid |-> bad,
   bitfield |-> FALSE, width |-> 0, offset |-> bits,
   size |-> RD.size, align |-> RD.align]

\* struct Fwd;
DeclFwd ==
  [id |-> 6, name |-> Str(<<"F", "w", "d">>), complete |-> FALSE,
   invalid |-> FALSE, ownVFPtr |-> FALSE, size |-> 0, align |-> 0,
   bases |-> <<>>, fields |-> <<>>]

\* struct E1 {};
DeclE1 ==
  [id |-> 5, name |-> Str(<<"E", "1">>), complete |-> TRUE,
   invalid |-> FALSE, ownVFPtr |-> FALSE, size |-> 1, align |-> 1,
   bases |-> <<>>, fields |-> <<>>]

\* struct E2 {};
DeclE2 ==
  [id |-> 2, name |-> Str(<<"E", "2">>), complete |-> TRUE,
   invalid |-> FALSE, ownVFPtr |-> FALSE, size |-> 1, align |-> 1,
   bases |-> <<>>, fields |-> <<>>]

\* struct A { virtual ~A(); int x; };
DeclA ==
  [id |-> 7, name |-> Str(<<"A">>), complete |-> TRUE,
   invalid |-> FALSE, ownVFPtr |-> TRUE, size |-> 16, align |-> 8,
   bases |-> <<>>, fields |-> <<IntField("x", 64, FALSE)>>]

\* struct Bad { int q; } with q a malformed declaration
DeclBad ==
  [id |-> 4, name |-> Str(<<"B", "a", "d">>), complete |-> TRUE,
   invalid |-> FALSE, ownVFPtr |-> FALSE, size |-> 4, align |-> 4,
   bases |-> <<>>, fields |-> <<IntField("q", 0, TRUE)>>]

\* struct V { ... }; a malformed record, used as a virtual base
DeclV ==
  [id |-> 8, name |-> Str(<<"V">>), complete |-> TRUE,
   invalid |-> TRUE, ownVFPtr |-> FALSE, size |-> 1, align |-> 1,
   bases |-> <<>>, fields |-> <<>>]

Prelude == <<DeclFwd, DeclE1, DeclE2, DeclA, DeclBad, DeclV>>

\* the base specifiers D may list, with the offsets the layout gives them;
\* E1 and E2 are empty and share offset 0
BaseSpecs ==
  { [decl |-> DeclE1,  virtual |-> FALSE, offset |-> 0],
    [decl |-> DeclE2,  virtual |-> FALSE, offset |-> 0],
    [decl |-> DeclA,   virtual |-> FALSE, offset |-> 8],
    [decl |-> DeclBad, virtual |-> FALSE, offset |-> 24],
    [decl |-> DeclV,   virtual |-> TRUE,  offset |-> 32] }

\* the fields D may declare:  int x;  unsigned b : 5;
\* A m : 3 (malformed: a bit-field of class type);
\* Fwd f (malformed: a field of incomplete type)
FieldDecls ==
  { IntField("x", 0, FALSE),
    BitFieldOf("b", 67, 5),
    RecordField("m", 128, DeclA, TRUE),
    RecordField("f", 256, DeclFwd, TRUE) }

\* the sequences of at most n distinct elements of S
Arrangements(S, n) ==
  UNION { { s \in [1..k -> S] : \A i, j \in 1..k : i # j => s[i] # s[j] }
          : k \in 0..n }

HasField(fs, n) == \E i \in 1..Len(fs) : fs[i].name = Str(<<n>>)

\* struct D : <bases> { <fields> };  a field of incomplete type makes the
\* front end mark the record itself malformed
Ds ==
  { [id |-> 3, name |-> Str(<<"D">>), complete |-> TRUE,
     invalid |-> HasField(fs, "f"), ownVFPtr |-> vp, size |-> 40,
     align |-> 8, bases |-> bs, fields |-> fs]
    : vp \in BOOLEAN,
      bs \in Arrangements(BaseSpecs, MaxBases),
      fs \in Arrangements(FieldDecls, MaxFields) }

\* struct W { D d; };
DeclW(d) ==
  [id |-> 1, name |-> Str(<<"W">>), complete |-> TRUE, invalid |-> FALSE,
   ownVFPtr |-> FALSE, size |-> 40, align |-> 8, bases |-> <<>>,
   fields |-> <<RecordField("d", 0, d, FALSE)>>]

Program(d) == Prelude \o <<d, DeclW(d)>>

Programs == { Program(d) : d \in Ds }

\* struct D : A, E1 { unsigned a : 3; unsigned b : 5; };
DeclD0 ==
  [id |-> 3, name |-> Str(<<"D">>), complete |-> TRUE, invalid |-> FALSE,
   ownVFPtr |-> FALSE, size |-> 40, align |-> 8,
   bases |-> << [decl |-> DeclA,  virtual |-> FALSE, offset |-> 8],
                [decl |-> DeclE1, virtual |-> FALSE, offset |-> 0] >>,
   fields |-> << BitFieldOf("a", 64, 3), BitFieldOf("b", 67, 5) >>]

\* struct D { Fwd f; };
DeclD1 ==
  [id |-> 3, name |-> Str(<<"D">>), complete |-> TRUE, invalid |-> TRUE,
   ownVFPtr |-> FALSE, size |-> 40, align |-> 8, bases |-> <<>>,
   fields |-> << RecordField("f", 256, DeclFwd, TRUE) >>]

\* the sources of the session specification: every prefix of the source
\* with D0 (the empty one is also a source the front end rejects), and the
\* source with D1
SessionPrograms ==
  { SubSeq(Program(DeclD0), 1, k) : k \in 0..Len(Program(DeclD0)) }
    \cup { Prelude \o <<DeclD1>> }

FieldNames == <<"a", "b", "c", "d">>

\* a field of C: a bit-field of width w (3 or 5) at any bit offset, or, with
\* w = 0, an int at a byte boundary
BitShapes ==
  { sh \in [bits : 0..MaxBit, w : {0, 3, 5}] : sh.w = 0 => sh.bits % 8 = 0 }

\* struct C { <fields> };  with or without a vptr of its own
DeclC(vp, shapes) ==
  [id |-> 9, name |-> Str(<<"C">>), complete |-> TRUE, invalid |-> FALSE,
   ownVFPtr |-> vp, size |-> 4, align |-> 4, bases |-> <<>>,
   fields |-> [i \in 1..Len(shapes) |->
                 IF shapes[i].w = 0
                   THEN IntField(FieldNames[i], shapes[i].bits, FALSE)
                   ELSE BitFieldOf(FieldNames[i], shapes[i].bits, shapes[i].w)]]

BitPrograms ==
  { <<DeclC(vp, shapes)>> :
      vp \in BOOLEAN,
      shapes \in UNION { [1..k -> BitShapes] : k \in 0..MaxBitFields } }

\* the ids getLayoutForRecord is called with: those of the declarations
\* above, and 0, which no declaration has
QueryIds == {0, 1, 3, 6, 7}

\* what reading the layout of a record without a definition may yield
GarbageQuantities == {0, 3}

RECURSIVE TieIn(_)
TieIn(RD) ==
  LET NV == SelectSeq(RD.bases, NonVirtual)
  IN  \/ \E i, j \in 1..Len(NV) : i # j /\ NV[i].offset = NV[j].offset
      \/ \E i \in 1..Len(NV) : TieIn(NV[i].decl)
      \/ \E i \in 1..Len(RD.fields) :
           RD.fields[i].rec # <<>> /\ TieIn(RD.fields[i].rec[1])

\* the outcomes a pass over p can have: the undefined read is an outcome
\* only where a record without a definition is analyzed, the order of ties
\* only where two bases share an offset
Oracles(p) ==
  LET UB == \E i \in 1..Len(p) : p[i].complete /\ Faults(p[i])
      Tie == \E i \in 1..Len(p) : p[i].complete /\ TieIn(p[i])
  IN  { o \in [crash : BOOLEAN, gsize : GarbageQuantities, gvptr : BOOLEAN,
               tie : BOOLEAN] :
          /\ (~UB \/ o.crash) => (o.gsize = 0 /\ ~o.gvptr)
          /\ ~UB => ~o.crash
          /\ ~Tie => ~o.tie }

(***************************************************************************)
(* The exported operations.                                                *)
(***************************************************************************)
\* setArgs(newArgs): newArgs is <<>> for a null pointer, <<s>> for a
\* pointer to the string s
setArgs(newArgs) ==
  /\ ~crashed
  /\ args' = IF newArgs # <<>> /\ newArgs[1] # "" THEN newArgs[1]
             ELSE DEFAULT_ARGS
  /\ last' = "setArgs"
  /\ qid' = 0
  /\ ret' = <<>>
  /\ UNCHANGED <<recordList, records, tu, calls, crashed, cleared>>

ArgInputs == { <<>>, <<"">>, <<"-m32">> }

\* a faulty variant: the records of the earlier pass are kept
KeepRecords(m) == m

\* Ctx.records.clear()
ClearRecords(m) == EmptyMap

\* analyzeSource(source), source being parsed to the declaration tree p
analyzeSource(p) ==
  /\ ~crashed
  /\ \E o \in Oracles(p) :
       LET st == TraverseDecl(p, [records |-> ClearRecords(records),
                                  calls |-> <<>>, crashed |-> FALSE], o)
       IN  /\ records' = st.records
           /\ calls' = st.calls
           /\ crashed' = st.crashed
  /\ recordList' = <<>>
  /\ tu' = p
  /\ last' = "analyzeSource"
  /\ qid' = 0
  /\ ret' = <<>>
  /\ cleared' = FALSE
  /\ UNCHANGED args

\* a faulty variant: cleanup also restores the default configuration
cleanupResetsArgs ==
  /\ ~crashed
  /\ recordList' = <<>>
  /\ records' = EmptyMap
  /\ args' = DEFAULT_ARGS
  /\ last' = "cleanup"
  /\ qid' = 0
  /\ ret' = <<>>
  /\ cleared' = TRUE
  /\ UNCHANGED <<tu, calls, crashed>>

\* cleanup()
cleanup ==
  /\ ~crashed
  /\ recordList' = <<>>
  /\ records' = EmptyMap
  /\ last' = "cleanup"
  /\ qid' = 0
  /\ ret' = <<>>
  /\ cleared' = TRUE
  /\ UNCHANGED <<args, tu, calls, crashed>>

\* getRecordList(): the listing is built in the cache and a copy returned
getRecordList ==
  /\ ~crashed
  /\ recordList' = ListHead(recordList)
                     \o ListEntries(MapKeys(records), records, TRUE)
                     \o <<"]">>
  /\ ret' = recordList'
  /\ last' = "getRecordList"
  /\ qid' = 0
  /\ UNCHANGED <<args, records, tu, calls, crashed, cleared>>

\* getLayoutForRecord(id)
getLayoutForRecord(id) ==
  /\ ~crashed
  /\ ret' = IF id \notin DOMAIN records THEN MissText
            ELSE writeField(records[id])
  /\ last' = "getLayoutForRecord"
  /\ qid' = id
  /\ UNCHANGED <<args, recordList, records, tu, calls, crashed, cleared>>

(***************************************************************************)
(* Specifications.                                                         *)
(***************************************************************************)
\* the state of a process that has analyzed nothing yet; src is the
\* declaration tree of the source it is about to be given
Start(src) ==
  /\ args = DEFAULT_ARGS
  /\ recordList = <<>>
  /\ records = EmptyMap
  /\ tu = src
  /\ calls = <<>>
  /\ crashed = FALSE
  /\ last = "none"
  /\ qid = 0
  /\ ret = <<>>
  /\ cleared = FALSE

\* the first call of a process: analyzeSource on the source it was given
AnalyzeInput == last = "none" /\ analyzeSource(tu)

\* a session: the five operations in any order, on any of the sources
Init == Start(<<>>)

Next ==
  \/ \E a \in ArgInputs : setArgs(a)
  \/ \E p \in SessionPrograms : analyzeSource(p)
  \/ cleanup
  \/ getRecordList
  \/ \E id \in QueryIds : getLayoutForRecord(id)

Spec == Init /\ [][Next]_vars

\* the analyzer: one pass over any of the sources with D
InitLayout == \E p \in Programs : Start(p)

NextLayout == AnalyzeInput

SpecLayout == InitLayout /\ [][NextLayout]_vars

\* the analyzer and the serializer on bit-fields: one pass over a source
\* with C, then queries
InitBits == \E p \in BitPrograms : Start(p)

NextBits ==
  \/ AnalyzeInput
  \/ \E id \in {0, 9} : getLayoutForRecord(id)

SpecBits == InitBits /\ [][NextBits]_vars

(***************************************************************************)
(* Properties.  The stored trees are read against the declaration tree tu  *)
(* they were built from.                                                   *)
(***************************************************************************)
IsVPtr(c) == c.fieldType = "VPtr"
IsNVBase(c) == c.fieldType = "NVBase"
IsFieldChild(c) == c.fieldType \in {"Simple", "BitField", "Record"}

VPtrChildren(n) == SelectSeq(n.subFields, IsVPtr)
BaseChildren(n) == SelectSeq(n.subFields, IsNVBase)
FieldChildren(n) == SelectSeq(n.subFields, IsFieldChild)

NonVirtualBases(rd) == SelectSeq(rd.bases, NonVirtual)

\* the declaration of the direct non-virtual base of rd that base child c
\* stands for (the direct bases of a record are distinct types)
BaseDeclOf(rd, c) ==
  LET NV == NonVirtualBases(rd)
  IN  NV[CHOOSE i \in 1..Len(NV) : NV[i].decl.name = c.type].decl

\* every Record or NVBase node below (and including) n, the tree of the
\* record declaration rd, paired with the declaration it was analyzed from
RECURSIVE NodePairs(_, _)
NodePairs(n, rd) ==
  LET B == BaseChildren(n)
      F == FieldChildren(n)
      recs == { i \in 1..Len(rd.fields) : i <= Len(F) /\ rd.fields[i].rec # <<>> }
  IN  { <<n, rd>> }
        \cup UNION { NodePairs(B[i], BaseDeclOf(rd, B[i])) : i \in 1..Len(B) }
        \cup UNION { NodePairs(F[i], rd.fields[i].rec[1]) : i \in recs }

\* the declarations of tu that have a tree in the store
StoredDecls ==
  { d \in { tu[i] : i \in 1..Len(tu) } : d.complete /\ d.id \in DOMAIN records }

StoredPairs == UNION { NodePairs(records[d.id], d) : d \in StoredDecls }

\* the base children of n stand for the non-virtual bases of rd, at the
\* offsets the layout gives them, and its field children for the fields of
\* rd, in declaration order
SameMembers(n, rd) ==
  LET B == BaseChildren(n)
      F == FieldChildren(n)
      NV == NonVirtualBases(rd)
  IN  /\ Len(B) = Len(NV)
      /\ \A i \in 1..Len(NV) :
           \E j \in 1..Len(B) :
             B[j].type = NV[i].decl.name /\ B[j].offset = NV[i].offset * 8
      /\ Len(F) = Len(rd.fields)
      /\ \A i \in 1..Len(F) :
           F[i].name = rd.fields[i].name /\ F[i].offset = rd.fields[i].offset

BasesStrictlyAscending(n) ==
  LET B == BaseChildren(n)
  IN  \A i \in 1..(Len(B) - 1) : B[i].offset < B[i + 1].offset

BasesAscending(n) ==
  LET B == BaseChildren(n)
  IN  \A i \in 1..(Len(B) - 1) : B[i].offset <= B[i + 1].offset

\* C1 as stated: in every Record or NVBase node of a stored tree the base
\* children are in strictly ascending offset order and the field children
\* are the declared fields in declaration order.
C1_StrictlyAscending ==
  \A pr \in StoredPairs : SameMembers(pr[1], pr[2]) /\ BasesStrictlyAscending(pr[1])

\* C1 as amended: in every Record or NVBase node of a stored tree the base
\* children are in ascending offset order, bases the layout puts at the
\* same offset (two empty bases) being adjacent with equal offsets, and the
\* field children are the declared fields in declaration order, whatever
\* their offsets.
C1_BasesAscendingFieldsDeclared ==
  \A pr \in StoredPairs : SameMembers(pr[1], pr[2]) /\ BasesAscending(pr[1])

\* a stored record whose inheritance list is not in memory order and whose
\* fields are not in offset order
C1_Witness ==
  /\ last = "analyzeSource"
  /\ \E d \in StoredDecls :
       LET NV == NonVirtualBases(d)
       IN  /\ Len(NV) >= 2 /\ NV[1].offset > NV[2].offset
           /\ Len(d.fields) >= 2 /\ d.fields[1].offset > d.fields[2].offset

\* every node below (and including) n paired with the well-formedness of
\* the declaration it corresponds to: the record declaration for a root or
\* a base, the field declaration for a leaf, the field declaration and the
\* record declaration of its type for a record-typed field; a vptr
\* corresponds to no declaration
RECURSIVE ValidityPairs(_, _, _)
ValidityPairs(n, own, rd) ==
  LET V == VPtrChildren(n)
      B == BaseChildren(n)
      F == FieldChildren(n)
      OfField(i) ==
        LET f == rd.fields[i]
        IN  IF f.rec # <<>>
              THEN ValidityPairs(F[i], ~f.invalid /\ ~f.rec[1].invalid, f.rec[1])
              ELSE { <<F[i], ~f.invalid>> }
  IN  { <<n, own>> }
        \cup { <<V[i], TRUE>> : i \in 1..Len(V) }
        \cup UNION { ValidityPairs(B[i], ~BaseDeclOf(rd, B[i]).invalid,
                                   BaseDeclOf(rd, B[i])) : i \in 1..Len(B) }
        \cup UNION { OfField(i) : i \in 1..Len(F) }

\* C2: in every stored tree, isValid of a node is true exactly when the
\* declaration the node corresponds to is well-formed and every child (hence
\* every descendant) has isValid true.
C2_ValidIffDeclAndDescendants ==
  \A d \in StoredDecls :
    \A pr \in ValidityPairs(records[d.id], ~d.invalid, d) :
      pr[1].isValid = (pr[2] /\ AllValid(pr[1].subFields))

\* the position of a child's kind in the layout of a child list
Rank(c) == IF IsVPtr(c) THEN 0 ELSE IF IsNVBase(c) THEN 1 ELSE 2

\* C3: in every Record or NVBase node of a stored tree the children are a
\* vptr (present exactly when the layout says the record owns one, at most
\* one, at offset 0), then the base children, then the field children.
C3_VPtrBasesFields ==
  \A pr \in StoredPairs :
    LET n == pr[1]
        rd == pr[2]
        K == n.subFields
        V == VPtrChildren(n)
    IN  /\ \A i, j \in 1..Len(K) : i < j => Rank(K[i]) <= Rank(K[j])
        /\ \A i \in 1..Len(K) :
             K[i].fieldType \in {"VPtr", "NVBase", "Simple", "BitField", "Record"}
        /\ Len(V) <= 1
        /\ \A i \in 1..Len(V) : V[i].offset = 0
        /\ rd.complete => (Len(V) = 1 <=> rd.ownVFPtr)
        /\ Len(V) = 1 => IsVPtr(K[1])
        /\ Len(BaseChildren(n)) = Len(NonVirtualBases(rd))
        /\ Len(FieldChildren(n)) = Len(rd.fields)

\* a stored record with a vptr of its own, a base and a field
C3_Witness ==
  /\ last = "analyzeSource"
  /\ \E d \in StoredDecls :
       /\ d.ownVFPtr /\ NonVirtualBases(d) # <<>> /\ d.fields # <<>>
       /\ Len(records[d.id].subFields) >= 3

\* C10: every invocation of analyzeRecord is on a complete record
\* definition.
C10_OnlyCompleteAnalyzed == \A i \in 1..Len(calls) : calls[i].complete

(***************************************************************************)
(* Texts the properties below compare the output with.                     *)
(***************************************************************************)
\* {"fieldType":"Record"
LIT_REC ==
  <<"{", "\"", "f", "i", "e", "l", "d", "T", "y", "p", "e", "\"", ":",
    "\"", "R", "e", "c", "o", "r", "d", "\"">>

\* {"id":"
LIT_ID ==
  <<"{", "\"", "i", "d", "\"", ":", "\"">>

\* ","name":"
LIT_NAME ==
  <<"\"", ",", "\"", "n", "a", "m", "e", "\"", ":", "\"">>

\* {"fieldType":"Record","type":"C","size":4,"align":4,"offset":0,"subFields": [
LIT_HEADC ==
  <<"{", "\"", "f", "i", "e", "l", "d", "T", "y", "p", "e", "\"", ":",
    "\"", "R", "e", "c", "o", "r", "d", "\"", ",", "\"", "t", "y", "p",
    "e", "\"", ":", "\"", "C", "\"", ",", "\"", "s", "i", "z", "e", "\"",
    ":", "4", ",", "\"", "a", "l", "i", "g", "n", "\"", ":", "4", ",",
    "\"", "o", "f", "f", "s", "e", "t", "\"", ":", "0", ",", "\"", "s",
    "u", "b", "F", "i", "e", "l", "d", "s", "\"", ":", " ", "[">>

\* {"fieldType":"VPtr","type":"vptr","size":8,"align":8,"offset":0}
LIT_VPTR ==
  <<"{", "\"", "f", "i", "e", "l", "d", "T", "y", "p", "e", "\"", ":",
    "\"", "V", "P", "t", "r", "\"", ",", "\"", "t", "y", "p", "e", "\"",
    ":", "\"", "v", "p", "t", "r", "\"", ",", "\"", "s", "i", "z", "e",
    "\"", ":", "8", ",", "\"", "a", "l", "i", "g", "n", "\"", ":", "8",
    ",", "\"", "o", "f", "f", "s", "e", "t", "\"", ":", "0", "}">>

\* {"fieldType":"BitField","name":"
LIT_BIT1 ==
  <<"{", "\"", "f", "i", "e", "l", "d", "T", "y", "p", "e", "\"", ":",
    "\"", "B", "i", "t", "F", "i", "e", "l", "d", "\"", ",", "\"", "n",
    "a", "m", "e", "\"", ":", "\"">>

\* ","type":"unsigned int","size":4,"align":4,"offset":
LIT_BIT2 ==
  <<"\"", ",", "\"", "t", "y", "p", "e", "\"", ":", "\"", "u", "n", "s",
    "i", "g", "n", "e", "d", " ", "i", "n", "t", "\"", ",", "\"", "s", "i",
    "z", "e", "\"", ":", "4", ",", "\"", "a", "l", "i", "g", "n", "\"",
    ":", "4", ",", "\"", "o", "f", "f", "s", "e", "t", "\"", ":">>

\* ,"bitWidth":
LIT_BIT3 ==
  <<",", "\"", "b", "i", "t", "W", "i", "d", "t", "h", "\"", ":">>

\* {"fieldType":"Simple","name":"
LIT_INT1 ==
  <<"{", "\"", "f", "i", "e", "l", "d", "T", "y", "p", "e", "\"", ":",
    "\"", "S", "i", "m", "p", "l", "e", "\"", ",", "\"", "n", "a", "m",
    "e", "\"", ":", "\"">>

\* ","type":"int","size":4,"align":4,"offset":
LIT_INT2 ==
  <<"\"", ",", "\"", "t", "y", "p", "e", "\"", ":", "\"", "i", "n", "t",
    "\"", ",", "\"", "s", "i", "z", "e", "\"", ":", "4", ",", "\"", "a",
    "l", "i", "g", "n", "\"", ":", "4", ",", "\"", "o", "f", "f", "s", "e",
    "t", "\"", ":">>

(***************************************************************************)
(* Properties of the session.                                              *)
(***************************************************************************)
\* the characters of a string that needs no escaping
Plain(S) == [i \in 1..Len(S) |-> Chr(S[i])]

\* the elements of a finite set of integers in ascending order
Ascending(S) ==
  [i \in 1..Cardinality(S) |->
     CHOOSE x \in S : Cardinality({ y \in S : y < x }) = i - 1]

\* the texts ts joined by commas
RECURSIVE Joined(_)
Joined(ts) ==
  IF ts = <<>> THEN <<>>
  ELSE IF Len(ts) = 1 THEN ts[1]
  ELSE ts[1] \o <<",">> \o Joined(Tail(ts))

\* C4: once analyzeSource has returned, and until the next cleanup, the
\* store holds exactly one tree for each complete record declaration of the
\* source, under that declaration's id and carrying its name, and nothing
\* else: nothing for a forward declaration, nothing of an earlier pass.
C4_StoreIsCompleteRecordsOfSource ==
  (~crashed /\ ~cleared) =>
    /\ DOMAIN records = { tu[i].id : i \in { j \in 1..Len(tu) : tu[j].complete } }
    /\ \A i \in 1..Len(tu) :
         tu[i].complete => /\ records[tu[i].id].type = tu[i].name
                           /\ records[tu[i].id].fieldType = "Record"

\* analyzeSource has returned on a source with complete records and a
\* forward declaration
C4_Witness ==
  /\ last = "analyzeSource" /\ ~crashed
  /\ \E i, j \in 1..Len(tu) : tu[i].complete /\ ~tu[j].complete

\* C5: cleanup empties the map and the cached listing and leaves the
\* configuration as it was; from then until the next analyzeSource the map
\* is empty and getRecordList returns [].
C5_ResetKeepsConfiguration ==
  /\ [](cleared => /\ records = EmptyMap
                   /\ (last = "getRecordList" => ret = <<"[", "]">>)
                   /\ (last = "cleanup" => recordList = <<>>))
  /\ [][last' = "cleanup" => args' = args]_vars

\* getRecordList after a cleanup that followed a pass over a source with
\* records, under a configuration that is not the default
C5_Witness ==
  /\ cleared /\ last = "getRecordList"
  /\ args # DEFAULT_ARGS
  /\ \E i \in 1..Len(tu) : tu[i].complete

\* C6: getLayoutForRecord(id) returns {} when id is no key of the map, and
\* the rendering of a Record node, never {}, when it is; in both cases it
\* leaves the map, the cached listing and the configuration unchanged.
C6_MissIsEmptyObject ==
  /\ [](last = "getLayoutForRecord" =>
          IF qid \in DOMAIN records
            THEN /\ ret # <<"{", "}">>
                 /\ Len(ret) > Len(LIT_REC)
                 /\ SubSeq(ret, 1, Len(LIT_REC)) = LIT_REC
                 /\ ret[Len(ret)] = "}"
            ELSE ret = <<"{", "}">>)
  /\ [][last' = "getLayoutForRecord" =>
          (records' = records /\ recordList' = recordList /\ args' = args)]_vars

\* a miss on a store that holds records
C6_Witness ==
  /\ last = "getLayoutForRecord"
  /\ qid \notin DOMAIN records
  /\ records # EmptyMap

\* the element of the listing for the entry of key id
ListingElement(id) ==
  LIT_ID \o utostr(id) \o LIT_NAME \o Plain(records[id].type) \o <<"\"", "}">>

\* C7: getRecordList returns [ e1,...,en ] without any space, one element
\* {"id":"<id>","name":"<name of the root>"} for each entry of the map, in
\* ascending order of id, [] for the empty map, and this is also the cached
\* listing; the listing cached before plays no part.
C7_ListingAscendingById ==
  last = "getRecordList" =>
    LET ids == Ascending(DOMAIN records)
    IN  /\ ret = <<"[">> \o Joined([i \in 1..Len(ids) |-> ListingElement(ids[i])])
                   \o <<"]">>
        /\ recordList = ret

\* a second listing in a row of a store with several records, which were
\* not inserted in the order of their ids
C7_Witness ==
  /\ last = "getRecordList"
  /\ Cardinality(DOMAIN records) >= 3
  /\ \E i, j \in 1..Len(tu) :
       i < j /\ tu[i].complete /\ tu[j].complete /\ tu[i].id > tu[j].id
  /\ Len(ret) > 2

\* whether text t has no space outside a string value, read from position i
\* on, inStr telling whether position i is inside a string
RECURSIVE Compact(_, _, _)
Compact(t, i, inStr) ==
  IF i > Len(t) THEN TRUE
  ELSE IF inStr
         THEN IF t[i] = "\\" THEN Compact(t, i + 2, TRUE)
              ELSE Compact(t, i + 1, t[i] # "\"")
         ELSE IF t[i] = " " THEN FALSE
              ELSE Compact(t, i + 1, t[i] = "\"")

\* C9: the text getLayoutForRecord returns has no whitespace outside string
\* values.
C9_NoWhitespaceOutsideStrings ==
  last = "getLayoutForRecord" => Compact(ret, 1, FALSE)

(***************************************************************************)
(* Properties of bit-fields.                                               *)
(***************************************************************************)
\* the rendering of field i of C, declared as f: the byte offset is the bit
\* offset divided by 8, rounded down; a bit-field, and only a bit-field,
\* has the key bitWidth, with the declared number of bits
ExpectedField(f) ==
  IF f.bitfield
    THEN LIT_BIT1 \o Plain(f.name) \o LIT_BIT2 \o utostr(f.offset \div 8)
           \o LIT_BIT3 \o utostr(f.width) \o <<"}">>
    ELSE LIT_INT1 \o Plain(f.name) \o LIT_INT2 \o utostr(f.offset \div 8)
           \o <<"}">>

\* C8: the rendering of C gives every field its bit offset divided by 8,
\* rounded down, as offset, and the key bitWidth exactly to the bit-fields,
\* with the declared width (3 or 5), not the 32 bits of the storage type.
C8_ByteOffsetAndBitWidth ==
  (last = "getLayoutForRecord" /\ qid \in DOMAIN records) =>
    LET C == tu[1]
        kids == (IF C.ownVFPtr THEN <<LIT_VPTR>> ELSE <<>>)
                  \o [i \in 1..Len(C.fields) |-> ExpectedField(C.fields[i])]
    IN  ret = LIT_HEADC \o Joined(kids) \o <<"]", "}">>

\* the rendering of struct C { unsigned a : 3; unsigned b : 5; } with a at
\* bit 0 and b at bit 3
C8_Witness ==
  /\ last = "getLayoutForRecord" /\ qid \in DOMAIN records
  /\ Len(tu[1].fields) = 2
  /\ tu[1].fields[1].bitfield /\ tu[1].fields[1].width = 3
  /\ tu[1].fields[1].offset = 0
  /\ tu[1].fields[2].bitfield /\ tu[1].fields[2].width = 5
  /\ tu[1].fields[2].offset = 3

====
